---- MODULE Spec2Model ----
(***************************************************************************)
(* Model of the price-ledger session of src/src/bank.rs: the frame decoder *)
(* (MessageDecoder::decode driven by FramedRead), the price store          *)
(* (BTreeMap<i32, i32>), Session::get_mean and the dispatch loop of        *)
(* Session::start, for one connection (Spec), and the accept loop of run  *)
(* with several connections, each read a frame at a time (SpecSessions).   *)
(*                                                                         *)
(* Numbers.  TLC's integers are 32 bits wide, so an i32 is a plain integer *)
(* and the i64 accumulator of get_mean is a pair <<hi, lo>> standing for   *)
(* hi * Limb + lo with lo in 0 .. Limb - 1 (hi carries the sign).          *)
(***************************************************************************)
EXTENDS Integers, Sequences, FiniteSets

\* ------------------------------------------------------------------ bounds

\* Number of frames the peer starts on one connection.
MaxFrames == 3

\* Number of frames the peer starts within the bytes of one read.
MaxCoalesce == 1

\* Bytes a short write of the diagnostic payload is taken to accept.
ShortLen == 7

\* Number of connections the accept loop takes (SpecSessions); MaxFrames is
\* then the number of frames all of them receive together.
MaxSessions == 2

\* ---------------------------------------------------------- program constants

\* decode: `if src.len() < 9`, `src.advance(9)`.
FrameLen == 9

\* b'I', b'Q' and the tag of the test's invalid frame (0x50).
TagI == 73
TagQ == 81
TagP == 80

\* b"undefined behavior"
Diag == "undefined behavior"

Limb == 256 * 256

\* ------------------------------------------------------------- integers

\* Mutant of to_num: the slice is read little-endian.
to_num_LittleEndian(bytes) ==
    LET b3 == IF bytes[4] >= 128 THEN bytes[4] - 256 ELSE bytes[4]
    IN  ((b3 * 256 + bytes[3]) * 256 + bytes[2]) * 256 + bytes[1]

\* i32::from_be_bytes on a 4-byte slice.
to_num(bytes) ==
    LET b0 == IF bytes[1] >= 128 THEN bytes[1] - 256 ELSE bytes[1]
    IN  ((b0 * 256 + bytes[2]) * 256 + bytes[3]) * 256 + bytes[4]

\* i32::to_be_bytes, as write_i32 puts an i32 on the wire.
to_be_bytes(v) ==
    LET hi == (v \div Limb) % Limb
        lo == v % Limb
    IN  <<hi \div 256, hi % 256, lo \div 256, lo % 256>>

\* `*p as i64`: sign extension of an i32 into the wide accumulator.
AsI64(p) == <<p \div Limb, p % Limb>>

\* i64 addition (no 64-bit wrap can occur below 2^32 summands of i32 size).
AddI64(a, b) ==
    LET lo == a[2] + b[2]
    IN  <<a[1] + b[1] + (lo \div Limb), lo % Limb>>

NegI64(a) == IF a[2] = 0 THEN <<-a[1], 0>> ELSE <<-a[1] - 1, Limb - a[2]>>

IsNegI64(a) == a[1] < 0

\* Unsigned long division of a non-negative wide value by a small count > 0.
UDivI64(a, c) ==
    LET r1 == a[1] % c
    IN  <<a[1] \div c, (r1 * Limb + a[2]) \div c>>

\* Mutant of DivI64: the quotient floored toward negative infinity.
DivI64_Floor(a, c) == UDivI64(a, c)

\* Rust's i64 `/`: the quotient truncated toward zero.
DivI64(a, c) == IF IsNegI64(a) THEN NegI64(UDivI64(NegI64(a), c)) ELSE UDivI64(a, c)

\* `as i32`: keep the low 32 bits, read as two's complement.
AsI32(a) == (((a[1] + Limb \div 2) % Limb) - Limb \div 2) * Limb + a[2]

\* ------------------------------------------------------------- messages

\* enum Message
Insert(timestamp, price) == [type |-> "Insert", timestamp |-> timestamp, price |-> price]
Query(start, end) == [type |-> "Query", start |-> start, end |-> end]
Invalid == [type |-> "Invalid"]

\* What decode returns with fewer than 9 bytes: Ok(None).
None == [type |-> "None"]

Drop(s, n) == SubSeq(s, n + 1, Len(s))
Take(s, n) == SubSeq(s, 1, n)

\* Mutant of decode: a message takes only the tag and the first seven bytes
\* of the fields off the accumulator.
decode_Advance8(src) ==
    IF Len(src) < FrameLen
    THEN [item |-> None, src |-> src]
    ELSE LET msg_type == src[1]
             num1 == to_num(SubSeq(src, 2, 5))
             num2 == to_num(SubSeq(src, 6, 9))
             item == IF msg_type = TagI THEN Insert(num1, num2)
                     ELSE IF msg_type = TagQ THEN Query(num1, num2)
                     ELSE Invalid
         IN  [item |-> item, src |-> Drop(src, FrameLen - 1)]

\* MessageDecoder::decode on the accumulator src: the item it returns and the
\* accumulator it leaves behind.
decode(src) ==
    IF Len(src) < FrameLen
    THEN [item |-> None, src |-> src]
    ELSE LET msg_type == src[1]
             num1 == to_num(SubSeq(src, 2, 5))
             num2 == to_num(SubSeq(src, 6, 9))
             item == IF msg_type = TagI THEN Insert(num1, num2)
                     ELSE IF msg_type = TagQ THEN Query(num1, num2)
                     ELSE Invalid
         IN  [item |-> item, src |-> Drop(src, FrameLen)]

\* ---------------------------------------------------------- price store

\* Mutant of BTreeInsert: an entry already at key is kept and a second one is
\* put after it.
BTreeInsert_Dup(m, k, v) ==
    LET NotAbove(e) == e[1] <= k
        Above(e) == e[1] > k
    IN  SelectSeq(m, NotAbove) \o <<<<k, v>>>> \o SelectSeq(m, Above)

\* BTreeMap<i32, i32> as its entries <<key, value>> in iteration order.
\* BTreeMap::insert: the entry at key is replaced, or a new one is put at its
\* place in key order.
BTreeInsert(m, k, v) ==
    LET Below(e) == e[1] < k
        Above(e) == e[1] > k
    IN  SelectSeq(m, Below) \o <<<<k, v>>>> \o SelectSeq(m, Above)

\* Mutant of BTreeRange: the half-open range start..end.
BTreeRange_HalfOpen(m, start, end) ==
    LET In(e) == start <= e[1] /\ e[1] < end
    IN  SelectSeq(m, In)

\* Mutant of BTreeRange: keys and bounds are compared as unsigned 32-bit
\* numbers, so that a negative one lies above every non-negative one.
BTreeRange_Unsigned(m, start, end) ==
    LET LeU(a, b) == IF (a < 0) = (b < 0) THEN a <= b ELSE a >= 0
        In(e) == LeU(start, e[1]) /\ LeU(e[1], end)
    IN  SelectSeq(m, In)

\* BTreeMap::range(start..=end), for start <= end.
BTreeRange(m, start, end) ==
    LET In(e) == start <= e[1] /\ e[1] <= end
    IN  SelectSeq(m, In)

\* Mutant of SumI64: the sum is kept in an i32 and wraps at 32 bits.
RECURSIVE SumI32(_)
SumI32(r) ==
    IF r = <<>> THEN <<0, 0>>
    ELSE AsI64(AsI32(AddI64(AsI64(Head(r)[2]), SumI32(Tail(r)))))

\* `.map(|(_, p)| *p as i64).sum::<i64>()`
RECURSIVE SumI64(_)
SumI64(r) ==
    IF r = <<>> THEN <<0, 0>>
    ELSE AddI64(AsI64(Head(r)[2]), SumI64(Tail(r)))

\* Mutant of get_mean: no early return; a range given backwards is turned
\* around.
get_mean_Swapped(prices_, start, end) ==
    LET r == IF start > end THEN BTreeRange(prices_, end, start)
                            ELSE BTreeRange(prices_, start, end)
        count == Len(r)
        total == SumI64(r)
    IN  IF count = 0 THEN 0 ELSE AsI32(DivI64(total, count))

\* Mutant of get_mean: an empty range is reported as -1.
get_mean_NoEntry(prices_, start, end) ==
    IF start > end
    THEN 0
    ELSE LET r == BTreeRange(prices_, start, end)
             count == Len(r)
             total == SumI64(r)
         IN  IF count = 0 THEN -1 ELSE AsI32(DivI64(total, count))

\* Session::get_mean
get_mean(prices_, start, end) ==
    IF start > end
    THEN 0
    ELSE LET r == BTreeRange(prices_, start, end)
             count == Len(r)
             total == SumI64(r)
         IN  IF count = 0 THEN 0 ELSE AsI32(DivI64(total, count))

\* ------------------------------------------------------------- the peer

\* One 9-byte frame as a client puts it on the wire.
Frame(tag, field1, field2) == <<tag>> \o to_be_bytes(field1) \o to_be_bytes(field2)

\* The frames a peer chooses from: inserts at two timestamps (one of them
\* with a second price), queries that cover both timestamps, only the lower
\* one, or have min_time > max_time, and a frame with an unrecognized tag.
\* The prices make the sum of two entries 4,000,000,001 or -1: odd, of
\* either sign, and in the first case beyond the 32-bit range.
Frames ==
    { Frame(TagI, -2000000000, 2000000001),
      Frame(TagI, 2000000000, 2000000000),
      Frame(TagI, 2000000000, -2000000002),
      Frame(TagQ, -2000000000, 2000000000),
      Frame(TagQ, -2000000000, 0),
      Frame(TagQ, 2000000000, -2000000000),
      Frame(TagP, 40960, 5) }

Min(a, b) == IF a <= b THEN a ELSE b

FrameSeqs(k) == UNION { [1..j -> Frames] : j \in 0..k }

RECURSIVE Concat(_)
Concat(fs) == IF fs = <<>> THEN <<>> ELSE Head(fs) \o Concat(Tail(fs))

\* ------------------------------------------------------------- state

VARIABLES
    cur,         \* peer: the bytes delivered so far of its frame in progress
    started,     \* peer: number of frames started
    received,    \* history: every byte poll_read has delivered
    buffer,      \* FramedRead: the accumulator handed to decode
    eof,         \* FramedRead: a read returned 0 bytes
    prices,      \* Session::prices
    mean,        \* the local `mean` of the latest Query arm
    msgs,        \* history: the Ok(message) items the loop obtained
    out,         \* history: the write calls on the connection
    state,       \* "reading" | "closed"
    ret,         \* what start returned: "none" | "Ok" | "Err"
    ID,          \* Session::new's static ID
    sessions     \* the Sessions run has spawned, in accept order

\* The one session Spec follows byte by byte.
session == <<cur, started, received, buffer, eof, prices, mean, msgs, out,
             state, ret>>

vars == <<cur, started, received, buffer, eof, prices, mean, msgs, out,
          state, ret, ID, sessions>>

\* Session::new, FramedRead::new
Init ==
    /\ cur = <<>>
    /\ started = 0
    /\ received = <<>>
    /\ buffer = <<>>
    /\ eof = FALSE
    /\ prices = <<>>
    /\ mean = 0
    /\ msgs = <<>>
    /\ out = <<>>
    /\ state = "reading"
    /\ ret = "none"
    /\ ID = 0
    /\ sessions = <<>>

\* ------------------------------------------------------------- writes

\* One write call: the match arm that made it, the call, the bytes it was
\* given, the number of bytes the transport accepted and whether it
\* returned Ok.
WriteRec(arm, call, buf, n, ok) ==
    [arm |-> arm, call |-> call, buf |-> buf, n |-> n, ok |-> ok]

\* writer.write_i32(mean).await: the call returns Ok once all 4 bytes are
\* accepted, or it fails (bytes accepted before a failure are not followed).
write_i32(arm, v, ok) ==
    WriteRec(arm, "write_i32", to_be_bytes(v), IF ok THEN 4 ELSE 0, ok)

\* writer.write(b"undefined behavior").await: a single write, which may accept
\* the whole buffer, accept only a part of it and still return Ok, or fail.
WriteOutcomes == {"full", "short", "fail"}

write(arm, buf, w) ==
    WriteRec(arm, "write", buf,
             IF w = "full" THEN Len(buf) ELSE IF w = "short" THEN ShortLen ELSE 0,
             w # "fail")

\* Mutant of AfterWrite: the result of the write is dropped and the loop goes
\* on.
AfterWrite_Ignore(rec) == UNCHANGED <<state, ret>>

\* `?` on a write result: an Err returns from start.
AfterWrite(rec) ==
    IF rec.ok
    THEN /\ UNCHANGED <<state, ret>>
    ELSE /\ state' = "closed"
         /\ ret' = "Err"

\* ------------------------------------------------------------- actions

\* What the peer may still send of its frame in progress: the rest of any
\* frame that begins with the bytes cur already delivered.
Lefts == IF cur = <<>> THEN {<<>>}
         ELSE { Drop(f, Len(cur)) : f \in { g \in Frames : Take(g, Len(cur)) = cur } }

\* What one read may deliver: the next bytes of the peer's stream, which are
\* what is left of the frame in progress, then up to k frames the peer
\* starts; of the last of these (of the frame in progress, when none is
\* started) the read delivers the first j bytes only.
Chunks(k) ==
    UNION { UNION { { Take(left \o Concat(fs),
                           IF fs = <<>> THEN j
                           ELSE Len(left) + FrameLen * (Len(fs) - 1) + j) :
                      j \in 1..(IF fs = <<>> THEN Len(left) ELSE FrameLen) } :
                    fs \in FrameSeqs(k) } :
            left \in Lefts }

\* Mutant of PollRead: each read starts from an empty accumulator, so the
\* bytes of a partial frame are lost.
PollRead_Fresh(chunk) ==
    /\ state = "reading" /\ ~eof
    /\ Len(buffer) < FrameLen
    /\ LET n == Len(cur) + Len(chunk)
       IN  /\ cur' = Drop(cur \o chunk, n - (n % FrameLen))
           /\ started' = started + ((n + FrameLen - 1) \div FrameLen)
                                 - (IF cur = <<>> THEN 0 ELSE 1)
    /\ buffer' = chunk
    /\ received' = received \o chunk
    /\ UNCHANGED <<eof, prices, mean, msgs, out, state, ret>>

\* messages.next() finds fewer than 9 bytes buffered and reads: poll_read
\* appends the bytes the transport delivers to the accumulator.
PollRead(chunk) ==
    /\ state = "reading" /\ ~eof
    /\ Len(buffer) < FrameLen
    /\ LET n == Len(cur) + Len(chunk)
       IN  /\ cur' = Drop(cur \o chunk, n - (n % FrameLen))
           /\ started' = started + ((n + FrameLen - 1) \div FrameLen)
                                 - (IF cur = <<>> THEN 0 ELSE 1)
    /\ buffer' = buffer \o chunk
    /\ received' = received \o chunk
    /\ UNCHANGED <<eof, prices, mean, msgs, out, state, ret>>

\* The common part of the three Ok arms: next() yields the decoded frame.
Yield(type) ==
    /\ state = "reading"
    /\ Len(buffer) >= FrameLen
    /\ decode(buffer).item.type = type
    /\ buffer' = decode(buffer).src
    /\ msgs' = Append(msgs, decode(buffer).item)
    /\ UNCHANGED <<cur, started, received, eof>>

\* Mutant of HandleQuery: an Insert that is already buffered behind the Query
\* is applied to the store the mean is taken over.
HandleQuery_Lookahead(ok) ==
    /\ Yield("Query")
    /\ LET q == decode(buffer).item
           i == decode(decode(buffer).src).item
           store == IF i.type = "Insert"
                    THEN BTreeInsert(prices, i.timestamp, i.price)
                    ELSE prices
           m == get_mean(store, q.start, q.end)
           rec == write_i32("Query", m, ok)
       IN  /\ mean' = m
           /\ out' = Append(out, rec)
           /\ AfterWrite(rec)
    /\ UNCHANGED prices

\* Ok(Message::Query { start, end })
HandleQuery(ok) ==
    /\ Yield("Query")
    /\ LET q == decode(buffer).item
           m == get_mean(prices, q.start, q.end)
           rec == write_i32("Query", m, ok)
       IN  /\ mean' = m
           /\ out' = Append(out, rec)
           /\ AfterWrite(rec)
    /\ UNCHANGED prices

\* Mutant of HandleInsert: the Insert arm acknowledges with four zero bytes.
HandleInsert_Ack ==
    /\ Yield("Insert")
    /\ LET i == decode(buffer).item
       IN  prices' = BTreeInsert(prices, i.timestamp, i.price)
    /\ out' = Append(out, write_i32("Insert", 0, TRUE))
    /\ UNCHANGED <<mean, state, ret>>

\* Ok(Message::Insert { timestamp, price })
HandleInsert ==
    /\ Yield("Insert")
    /\ LET i == decode(buffer).item
       IN  prices' = BTreeInsert(prices, i.timestamp, i.price)
    /\ UNCHANGED <<mean, out, state, ret>>

\* Mutant of HandleInvalid: an unrecognized tag ends the session after the
\* diagnostic payload.
HandleInvalid_Close(w) ==
    /\ Yield("Invalid")
    /\ out' = Append(out, write("Invalid", Diag, w))
    /\ state' = "closed"
    /\ ret' = "Err"
    /\ UNCHANGED <<prices, mean>>

\* Mutant of HandleInvalid: a frame with an unknown tag empties the store.
HandleInvalid_Clear(w) ==
    /\ Yield("Invalid")
    /\ LET rec == write("Invalid", Diag, w)
       IN  /\ out' = Append(out, rec)
           /\ AfterWrite(rec)
    /\ prices' = <<>>
    /\ UNCHANGED mean

\* Ok(Message::Invalid)
HandleInvalid(w) ==
    /\ Yield("Invalid")
    /\ LET rec == write("Invalid", Diag, w)
       IN  /\ out' = Append(out, rec)
           /\ AfterWrite(rec)
    /\ UNCHANGED <<prices, mean>>

\* Mutant of HandleErr: the bytes left at end-of-stream are dropped without a
\* write.
HandleErr_Silent(w) ==
    /\ state = "reading" /\ ~eof
    /\ Len(buffer) < FrameLen /\ buffer # <<>>
    /\ eof' = TRUE
    /\ state' = "closed"
    /\ ret' = "Ok"
    /\ UNCHANGED <<cur, started, received, buffer, prices, mean, msgs, out>>

\* Mutant of HandleErr: the stream yields the Err item a second time before
\* it finishes, so the Err arm runs twice.
HandleErr_Twice(w) ==
    /\ state = "reading" /\ ~eof
    /\ Len(buffer) < FrameLen /\ buffer # <<>>
    /\ eof' = TRUE
    /\ LET rec == write("Err", Diag, w)
       IN  /\ out' = IF rec.ok THEN out \o <<rec, rec>> ELSE Append(out, rec)
           /\ state' = "closed"
           /\ ret' = IF rec.ok THEN "Ok" ELSE "Err"
    /\ UNCHANGED <<cur, started, received, buffer, prices, mean, msgs>>

\* A read returns 0 bytes with bytes left in the accumulator: decode_eof
\* gives Err ("bytes remaining on stream") and the Err(e) arm runs. After an
\* Err item the stream is finished: the next next() is None, the loop ends
\* and start returns Ok(()).
HandleErr(w) ==
    /\ state = "reading" /\ ~eof
    /\ Len(buffer) < FrameLen /\ buffer # <<>>
    /\ eof' = TRUE
    /\ LET rec == write("Err", Diag, w)
       IN  /\ out' = Append(out, rec)
           /\ state' = "closed"
           /\ ret' = IF rec.ok THEN "Ok" ELSE "Err"
    /\ UNCHANGED <<cur, started, received, buffer, prices, mean, msgs>>

\* Mutant of EndOfStream: the loop ends as soon as the peer has closed,
\* whatever the accumulator holds.
EndOfStream_Early ==
    /\ state = "reading" /\ ~eof
    /\ eof' = TRUE
    /\ state' = "closed"
    /\ ret' = "Ok"
    /\ UNCHANGED <<cur, started, received, buffer, prices, mean, msgs, out>>

\* A read returns 0 bytes with an empty accumulator: next() is None, the loop
\* ends and start returns Ok(()).
EndOfStream ==
    /\ state = "reading" /\ ~eof
    /\ buffer = <<>>
    /\ eof' = TRUE
    /\ state' = "closed"
    /\ ret' = "Ok"
    /\ UNCHANGED <<cur, started, received, buffer, prices, mean, msgs, out>>

\* Spec follows one session and takes no further connection.
NoAccept == UNCHANGED <<ID, sessions>>

Next ==
    \/ NoAccept /\ \E chunk \in Chunks(Min(MaxCoalesce, MaxFrames - started)) : PollRead(chunk)
    \/ NoAccept /\ \E ok \in BOOLEAN : HandleQuery(ok)
    \/ NoAccept /\ HandleInsert
    \/ NoAccept /\ \E w \in WriteOutcomes : HandleInvalid(w)
    \/ NoAccept /\ \E w \in WriteOutcomes : HandleErr(w)
    \/ NoAccept /\ EndOfStream

Spec == Init /\ [][Next]_vars

\* ------------------------------------------------- several connections

\* Session::new: the id is ID.fetch_add(1), the store a fresh BTreeMap. msgs,
\* out, state and ret are as for the one session of Spec.
NewSession(id) ==
    [id |-> id, prices |-> <<>>, msgs |-> <<>>, out |-> <<>>,
     state |-> "reading", ret |-> "none"]

\* The frames the peers of SpecSessions choose from: an insert at either
\* timestamp, the query that covers both, and the frame with another tag.
SessionFrames ==
    { Frame(TagI, -2000000000, 2000000001),
      Frame(TagI, 2000000000, 2000000000),
      Frame(TagQ, -2000000000, 2000000000),
      Frame(TagP, 40960, 5) }

\* The frames the sessions ss have received together.
RECURSIVE TotalFrames(_)
TotalFrames(ss) ==
    IF ss = <<>> THEN 0 ELSE Len(Head(ss).msgs) + TotalFrames(Tail(ss))

\* The session sessions[c] is in its loop and the peer may send it a frame.
Serving(c) ==
    /\ c \in 1..Len(sessions)
    /\ sessions[c].state = "reading"
    /\ TotalFrames(sessions) < MaxFrames

\* `?` on a write result, for the session s.
SessionAfterWrite(s, m, rec) ==
    [s EXCEPT !.msgs = Append(@, m),
              !.out = Append(@, rec),
              !.state = IF rec.ok THEN @ ELSE "closed",
              !.ret = IF rec.ok THEN @ ELSE "Err"]

\* run: listener.accept(), then a task is spawned that owns Session::new().
Accept ==
    /\ Len(sessions) < MaxSessions
    /\ sessions' = Append(sessions, NewSession(ID))
    /\ ID' = ID + 1
    /\ UNCHANGED session

\* Mutant of SessionInsert: the store is one map shared by all the sessions.
SessionInsert_Shared(c, frame) ==
    LET m == decode(frame).item
    IN  /\ Serving(c)
        /\ m.type = "Insert"
        /\ sessions' = [d \in 1..Len(sessions) |->
               [sessions[d] EXCEPT
                   !.prices = BTreeInsert(@, m.timestamp, m.price),
                   !.msgs = IF d = c THEN Append(@, m) ELSE @]]
        /\ UNCHANGED <<ID, session>>

\* The Insert arm in the session sessions[c], for a frame that arrives whole.
SessionInsert(c, frame) ==
    LET m == decode(frame).item
    IN  /\ Serving(c)
        /\ m.type = "Insert"
        /\ sessions' = [sessions EXCEPT ![c] =
               [@ EXCEPT !.prices = BTreeInsert(@, m.timestamp, m.price),
                         !.msgs = Append(@, m)]]
        /\ UNCHANGED <<ID, session>>

\* The Query arm in the session sessions[c].
SessionQuery(c, frame, ok) ==
    LET m == decode(frame).item
        s == sessions[c]
    IN  /\ Serving(c)
        /\ m.type = "Query"
        /\ sessions' = [sessions EXCEPT ![c] =
               SessionAfterWrite(s, m,
                   write_i32("Query", get_mean(s.prices, m.start, m.end), ok))]
        /\ UNCHANGED <<ID, session>>

\* The Invalid arm in the session sessions[c].
SessionInvalid(c, frame, w) ==
    LET m == decode(frame).item
    IN  /\ Serving(c)
        /\ m.type = "Invalid"
        /\ sessions' = [sessions EXCEPT ![c] =
               SessionAfterWrite(sessions[c], m, write("Invalid", Diag, w))]
        /\ UNCHANGED <<ID, session>>

\* The peer of sessions[c] closes between two frames: start returns Ok(()).
SessionEnd(c) ==
    /\ c \in 1..Len(sessions)
    /\ sessions[c].state = "reading"
    /\ sessions' = [sessions EXCEPT ![c] = [@ EXCEPT !.state = "closed", !.ret = "Ok"]]
    /\ UNCHANGED <<ID, session>>

NextSessions ==
    \/ Accept
    \/ \E c \in 1..MaxSessions, frame \in SessionFrames : SessionInsert(c, frame)
    \/ \E c \in 1..MaxSessions, frame \in SessionFrames, ok \in BOOLEAN : SessionQuery(c, frame, ok)
    \/ \E c \in 1..MaxSessions, frame \in SessionFrames, w \in WriteOutcomes : SessionInvalid(c, frame, w)
    \/ \E c \in 1..MaxSessions : SessionEnd(c)

SpecSessions == Init /\ [][NextSessions]_vars

\* ------------------------------------------------------- claim helpers

Last(s) == s[Len(s)]
Front(s) == SubSeq(s, 1, Len(s) - 1)

IsQuery(m) == m.type = "Query"
IsInsert(m) == m.type = "Insert"
IsInvalid(m) == m.type = "Invalid"

\* The items the decoder yields when src is all it ever gets, in one read.
RECURSIVE DecodeAll(_)
DecodeAll(src) ==
    LET d == decode(src)
    IN  IF d.item.type = "None" THEN <<>> ELSE <<d.item>> \o DecodeAll(d.src)

\* The store after the Inserts among the messages ms, applied in order.
RECURSIVE StoreOf(_)
StoreOf(ms) ==
    IF ms = <<>> THEN <<>>
    ELSE LET m == Last(ms)
             s == StoreOf(Front(ms))
         IN  IF IsInsert(m) THEN BTreeInsert(s, m.timestamp, m.price) ELSE s

\* The messages that are not Inserts, the write calls of the Ok arms, and the
\* 4-byte responses that were written.
NonInserts == LET T(m) == ~IsInsert(m) IN SelectSeq(msgs, T)
OkArmWrites == LET T(r) == r.arm # "Err" IN SelectSeq(out, T)
Responses == LET T(r) == r.call = "write_i32" /\ r.ok IN SelectSeq(out, T)

NumQueries(i) == Cardinality({ j \in 1..i : IsQuery(msgs[j]) })

\* The position in msgs of the k-th Query.
KthQuery(k) == CHOOSE i \in 1..Len(msgs) : IsQuery(msgs[i]) /\ NumQueries(i) = k

\* The latest message is a Query, so that mean is its result and prices is
\* the store it was computed on.
QueryJustHandled == msgs # <<>> /\ IsQuery(Last(msgs))

\* The indices of the store's entries with start <= timestamp <= end.
InRange(start, end) ==
    { i \in 1..Len(prices) : start <= prices[i][1] /\ prices[i][1] <= end }

\* The sum of f[x] for x in S.
RECURSIVE SumOver(_, _)
SumOver(S, f) ==
    IF S = {} THEN 0
    ELSE LET x == CHOOSE y \in S : TRUE IN f[x] + SumOver(S \ {x}, f)

\* v is total / count truncated toward zero, for the total of the count > 0
\* numbers f[x], x in DOMAIN f: the remainder r = total - count * v is
\* smaller than count in size and does not have the opposite sign of v. The
\* remainder is summed digit by digit in base Limb, r = hi * Limb + lo, so
\* that no intermediate value leaves the range of the model checker's
\* integers.
IsMeanOf(v, f) ==
    LET S == DOMAIN f
        count == Cardinality(S)
        H == SumOver(S, [x \in S |-> (f[x] \div Limb) - (v \div Limb)])
        L == SumOver(S, [x \in S |-> (f[x] % Limb) - (v % Limb)])
        hi == H + (L \div Limb)
        lo == L % Limb
    IN  /\ \/ hi = 0 /\ lo < count
           \/ hi = -1 /\ Limb - lo < count
        /\ v > 0 => hi = 0
        /\ v < 0 => (hi = -1 \/ lo = 0)

\* ------------------------------------------------------------- claims

\* C1: fragmentation invariance. However the reads cut the stream, the
\* messages the session has obtained, followed by those still to come out of
\* its accumulator, are the messages a decoder yields that gets all the
\* received bytes in a single read.
C1_FragmentationInvariance == msgs \o DecodeAll(buffer) = DecodeAll(received)

\* Two frames were decoded and a third one is split across reads.
C1_Witness == Len(msgs) >= 2 /\ buffer # <<>> /\ Len(buffer) < FrameLen

\* C2: responses are written in the order of the frames that trigger them:
\* the write calls of the Ok arms are, in order, those of the Query and
\* Invalid messages obtained (an Insert makes none); the k-th 4-byte response
\* is the big-endian encoding of the mean for the k-th Query, computed on the
\* store of the Inserts before it; and there are no more 4-byte responses
\* than Queries.
C2_ResponsesInOrder ==
    /\ Len(OkArmWrites) = Len(NonInserts)
    /\ \A k \in 1..Len(OkArmWrites) : OkArmWrites[k].arm = NonInserts[k].type
    /\ Len(Responses) <= NumQueries(Len(msgs))
    /\ \A k \in 1..Len(Responses) :
          LET i == KthQuery(k)
              q == msgs[i]
          IN  /\ Responses[k].n = 4
              /\ Len(Responses[k].buf) = 4
              /\ to_num(Responses[k].buf)
                    = get_mean(StoreOf(Take(msgs, i - 1)), q.start, q.end)

\* Two responses with different values were written, with an Insert handled
\* on the connection.
C2_Witness ==
    /\ Len(Responses) >= 2
    /\ Responses[1].buf # Responses[2].buf
    /\ \E i \in 1..Len(msgs) : IsInsert(msgs[i])

\* C3: for min_time <= max_time with at least one entry in range, the mean is
\* the sum of the prices of exactly the entries with
\* min_time <= timestamp <= max_time, divided by their number with integer
\* division.
C3_MeanOfInclusiveRange ==
    QueryJustHandled =>
        LET q == Last(msgs)
            S == InRange(q.start, q.end)
        IN  (q.start <= q.end /\ S # {}) =>
                IsMeanOf(mean, [i \in S |-> prices[i][2]])

\* A Query whose range has an entry at its upper end point and leaves another
\* entry out.
C3_Witness ==
    /\ QueryJustHandled
    /\ LET q == Last(msgs)
           S == InRange(q.start, q.end)
       IN  /\ q.start <= q.end
           /\ S # {}
           /\ S # 1..Len(prices)
           /\ \E i \in S : prices[i][1] = q.start

\* C4: a frame with an unrecognized tag makes the session issue the write of
\* `undefined behavior` once for that frame (one write call per Invalid
\* message, the latest call of an Ok arm being that write right after the
\* frame); unless that write fails, the session stays in the reading state
\* until end-of-stream; and a Query after
\* an Invalid message is answered with the mean over the store of the Inserts
\* received so far.
C4_InvalidTagTolerated ==
    /\ LET TI(m) == IsInvalid(m)
           TW(r) == r.arm = "Invalid"
       IN  Len(SelectSeq(out, TW)) = Len(SelectSeq(msgs, TI))
    /\ (msgs # <<>> /\ IsInvalid(Last(msgs))) =>
          /\ OkArmWrites # <<>>
          /\ Last(OkArmWrites).arm = "Invalid"
          /\ Last(OkArmWrites).call = "write"
          /\ Last(OkArmWrites).buf = Diag
          /\ (Last(OkArmWrites).ok /\ ~eof) => (state = "reading" /\ ret = "none")
    /\ (QueryJustHandled /\ \E i \in 1..Len(msgs) : IsInvalid(msgs[i])) =>
          /\ mean = get_mean(StoreOf(msgs), Last(msgs).start, Last(msgs).end)
          /\ Last(OkArmWrites).call = "write_i32"
          /\ to_num(Last(OkArmWrites).buf) = mean

\* An Insert, then a frame with an unrecognized tag, then a Query that is
\* answered with the inserted price while the session keeps reading.
C4_Witness ==
    /\ Len(msgs) = 3
    /\ IsInsert(msgs[1]) /\ IsInvalid(msgs[2]) /\ IsQuery(msgs[3])
    /\ mean = msgs[1].price
    /\ mean # 0
    /\ Last(out).ok
    /\ state = "reading"

\* The stream ended with 1 to 8 undecoded bytes in the accumulator.
TruncatedAtEof == eof /\ buffer # <<>>

ErrWrites == LET T(r) == r.arm = "Err" IN SelectSeq(out, T)

\* C5, as stated: at end-of-stream with 1 to 8 bytes left in the accumulator
\* the session writes nothing for them, obtains no message for them and
\* closes normally.
C5_Original ==
    TruncatedAtEof =>
        /\ ErrWrites = <<>>
        /\ Len(msgs) = Len(received) \div FrameLen
        /\ state = "closed" /\ ret = "Ok"

\* C5, amended: at end-of-stream with 1 to 8 bytes left in the accumulator
\* the session obtains no message for them, issues the write of
\* `undefined behavior` once for them, and closes, normally unless that
\* write fails.
C5_TrailingBytesReported ==
    TruncatedAtEof =>
        /\ Len(buffer) < FrameLen
        /\ Len(msgs) = Len(received) \div FrameLen
        /\ Len(ErrWrites) = 1
        /\ ErrWrites[1].call = "write"
        /\ ErrWrites[1].buf = Diag
        /\ state = "closed"
        /\ ret = (IF ErrWrites[1].ok THEN "Ok" ELSE "Err")

\* The stream was nothing but a few bytes of a frame, and the session has
\* returned Ok.
C5_Witness ==
    /\ TruncatedAtEof
    /\ Len(received) < FrameLen
    /\ ret = "Ok"

\* C6: when the stream ends in the middle of a frame that follows complete
\* frames, the complete frames have all been handled, the write of
\* `undefined behavior` for the truncated frame is the last write call and
\* the only one of its kind, and the only other write calls are those of
\* the complete frames.
C6_TruncatedFrameDiagnosed ==
    (TruncatedAtEof /\ Len(received) >= FrameLen) =>
        /\ msgs = DecodeAll(received)
        /\ Last(out).arm = "Err"
        /\ Last(out).call = "write"
        /\ Last(out).buf = Diag
        /\ Len(ErrWrites) = 1
        /\ Len(out) = Len(NonInserts) + 1

\* One Insert frame, then five bytes, then end-of-stream: the payload is the
\* only write.
C6_Witness ==
    /\ TruncatedAtEof
    /\ Len(received) = FrameLen + 5
    /\ Len(msgs) = 1 /\ IsInsert(msgs[1])
    /\ Len(prices) = 1
    /\ Len(out) = 1
    /\ out[1].buf = Diag /\ out[1].n = Len(Diag)

\* The positions in msgs of the Inserts, the timestamps inserted and the
\* latest Insert for a timestamp.
InsertIdx == { i \in 1..Len(msgs) : IsInsert(msgs[i]) }
Keys == { msgs[i].timestamp : i \in InsertIdx }
LatestInsert(t) ==
    LET I == { i \in InsertIdx : msgs[i].timestamp = t }
    IN  msgs[CHOOSE i \in I : \A j \in I : j <= i]

\* C7: overwrite semantics. The store holds one entry for each timestamp
\* inserted and no other, its price is that of the latest Insert for the
\* timestamp, and a mean over a range counts each timestamp in it once, with
\* that latest price.
C7_Overwrite ==
    /\ \A i, j \in 1..Len(prices) : prices[i][1] = prices[j][1] => i = j
    /\ { prices[i][1] : i \in 1..Len(prices) } = Keys
    /\ \A i \in 1..Len(prices) : prices[i][2] = LatestInsert(prices[i][1]).price
    /\ QueryJustHandled =>
          LET q == Last(msgs)
              K == { t \in Keys : q.start <= t /\ t <= q.end }
          IN  (q.start <= q.end /\ K # {}) =>
                  IsMeanOf(mean, [t \in K |-> LatestInsert(t).price])

\* A timestamp was inserted twice with different prices and a Query over it
\* was answered with a mean that is neither zero nor the first price.
C7_Witness ==
    /\ QueryJustHandled
    /\ \E i, j \in InsertIdx :
          /\ i < j
          /\ msgs[i].timestamp = msgs[j].timestamp
          /\ msgs[i].price # msgs[j].price
          /\ Last(msgs).start <= msgs[i].timestamp
          /\ msgs[i].timestamp <= Last(msgs).end
          /\ Len(prices) = 1
          /\ mean = msgs[j].price

\* C8: a Query with min_time > max_time has the mean 0 whatever the store
\* holds and leaves the store as the Inserts made it; the session answers it
\* with the bytes 00 00 00 00 and, unless that write fails, keeps reading
\* until end-of-stream.
C8_ReversedRangeIsZero ==
    (QueryJustHandled /\ Last(msgs).start > Last(msgs).end) =>
        /\ mean = 0
        /\ prices = StoreOf(msgs)
        /\ Last(OkArmWrites).call = "write_i32"
        /\ Last(OkArmWrites).buf = <<0, 0, 0, 0>>
        /\ (Last(OkArmWrites).ok /\ ~eof) => (state = "reading" /\ ret = "none")

\* A Query with min_time > max_time on a store that has entries between
\* max_time and min_time, answered while the session keeps reading.
C8_Witness ==
    /\ QueryJustHandled
    /\ Last(msgs).start > Last(msgs).end
    /\ InRange(Last(msgs).end, Last(msgs).start) # {}
    /\ Last(out).ok /\ Last(out).n = 4
    /\ state = "reading"

\* C9: a Query with min_time <= max_time and no entry of the store in
\* [min_time, max_time] (an empty store included) has the mean 0, and that
\* is what the session answers.
C9_EmptyRangeIsZero ==
    (QueryJustHandled /\ Last(msgs).start <= Last(msgs).end
                      /\ InRange(Last(msgs).start, Last(msgs).end) = {}) =>
        /\ mean = 0
        /\ Last(OkArmWrites).buf = <<0, 0, 0, 0>>

\* A Query with min_time <= max_time on a store whose entries all lie outside
\* the range.
C9_Witness ==
    /\ QueryJustHandled
    /\ Last(msgs).start <= Last(msgs).end
    /\ prices # <<>>
    /\ InRange(Last(msgs).start, Last(msgs).end) = {}

\* C10: the mean lies between the smallest and the largest in-range price,
\* also when the sum of the in-range prices is beyond the 32-bit range, and
\* narrowing the 64-bit quotient to an i32 does not change its value.
C10_MeanWithinPrices ==
    QueryJustHandled =>
        LET q == Last(msgs)
            S == InRange(q.start, q.end)
        IN  (q.start <= q.end /\ S # {}) =>
                /\ \E i \in S : prices[i][2] <= mean
                /\ \E i \in S : mean <= prices[i][2]
                /\ AsI64(mean) = DivI64(SumI64(BTreeRange(prices, q.start, q.end)),
                                        Cardinality(S))

\* A Query over prices whose sum is 2^31 or more.
C10_Witness ==
    /\ QueryJustHandled
    /\ Last(msgs).start <= Last(msgs).end
    /\ SumI64(BTreeRange(prices, Last(msgs).start, Last(msgs).end))[1] >= Limb \div 2
    /\ mean = 2000000000

\* The sum of the numbers f[x], x in DOMAIN f, as hi * Limb + lo with lo in
\* 0 .. Limb - 1, summed digit by digit.
DigitSum(f) ==
    LET S == DOMAIN f
        H == SumOver(S, [x \in S |-> f[x] \div Limb])
        L == SumOver(S, [x \in S |-> f[x] % Limb])
    IN  <<H + (L \div Limb), L % Limb>>

\* C11: the mean truncates toward zero. With q the quotient of the sum of the
\* in-range prices by their number floored toward negative infinity, the
\* mean is q when the sum is a multiple of the number or is positive, and
\* q + 1 when the sum is negative and not a multiple.
C11_TruncatesTowardZero ==
    QueryJustHandled =>
        LET q == Last(msgs)
            S == InRange(q.start, q.end)
            count == Cardinality(S)
            total == DigitSum([i \in S |-> prices[i][2]])
            r1 == total[1] % count
            floor == (total[1] \div count) * Limb + ((r1 * Limb + total[2]) \div count)
            rem == (r1 * Limb + total[2]) % count
        IN  (q.start <= q.end /\ S # {}) =>
                mean = (IF rem # 0 /\ total[1] < 0 THEN floor + 1 ELSE floor)

\* A Query over two prices whose sum is -1: the mean is 0, not -1.
C11_Witness ==
    /\ QueryJustHandled
    /\ Last(msgs).start <= Last(msgs).end
    /\ Cardinality(InRange(Last(msgs).start, Last(msgs).end)) = 2
    /\ DigitSum([i \in 1..2 |-> prices[i][2]]) = <<-1, Limb - 1>>
    /\ mean = 0

\* The bytes of the k-th frame of the stream.
FrameAt(k) == SubSeq(received, FrameLen * (k - 1) + 1, FrameLen * k)

\* C12: timestamps and bounds are signed 32-bit numbers. A field whose first
\* byte has the top bit set is decoded as a negative number; the store
\* iterates in signed order, negative timestamps first; a Query with a
\* negative min_time and a non-negative max_time gets the mean of all entries
\* between them in signed order, and if only one entry lies there, that
\* entry's price.
C12_SignedTimestamps ==
    /\ \A k \in 1..Len(msgs) :
           /\ IsInsert(msgs[k]) => (msgs[k].timestamp < 0 <=> FrameAt(k)[2] >= 128)
           /\ IsQuery(msgs[k]) =>
                  /\ msgs[k].start < 0 <=> FrameAt(k)[2] >= 128
                  /\ msgs[k].end < 0 <=> FrameAt(k)[6] >= 128
    /\ \A i, j \in 1..Len(prices) : i < j => prices[i][1] < prices[j][1]
    /\ (QueryJustHandled /\ Last(msgs).start < 0 /\ Last(msgs).end >= 0) =>
           LET S == InRange(Last(msgs).start, Last(msgs).end)
           IN  /\ S # {} => IsMeanOf(mean, [i \in S |-> prices[i][2]])
               /\ \A i \in S : S = {i} => mean = prices[i][2]

\* The store has entries at -2,000,000,000 and 2,000,000,000 with different
\* prices, and a Query from -2,000,000,000 to 0 got the price of the first.
C12_Witness ==
    /\ QueryJustHandled
    /\ Len(prices) = 2
    /\ prices[1][1] = -2000000000 /\ prices[2][1] = 2000000000
    /\ prices[1][2] # prices[2][2]
    /\ Last(msgs).start = -2000000000 /\ Last(msgs).end = 0
    /\ mean = prices[1][2]

\* v is a signed 32-bit number and bytes is its big-endian two's-complement
\* encoding.
IsBigEndianOf(bytes, v) ==
    /\ (-(Limb \div 2)) * Limb <= v
    /\ v <= (Limb \div 2 - 1) * Limb + (Limb - 1)
    /\ to_be_bytes(v) = bytes

\* C13: decoding a complete frame is total. The k-th frame of the stream gave
\* the k-th message: an Insert for tag 0x49 and a Query for tag 0x51, whose
\* two fields are the numbers that bytes 2..5 and 6..9 of the frame encode
\* big-endian in two's complement, and Invalid for any other tag. The
\* decoder's error item comes only from a stream that ended inside a frame.
C13_DecodeTotal ==
    /\ \A k \in 1..Len(msgs) :
        LET f == FrameAt(k)
            m == msgs[k]
        IN  /\ f[1] = TagI =>
                   /\ m.type = "Insert"
                   /\ IsBigEndianOf(SubSeq(f, 2, 5), m.timestamp)
                   /\ IsBigEndianOf(SubSeq(f, 6, 9), m.price)
            /\ f[1] = TagQ =>
                   /\ m.type = "Query"
                   /\ IsBigEndianOf(SubSeq(f, 2, 5), m.start)
                   /\ IsBigEndianOf(SubSeq(f, 6, 9), m.end)
            /\ f[1] \notin {TagI, TagQ} => m = Invalid
    /\ ErrWrites # <<>> => TruncatedAtEof

\* Three frames were decoded: an Insert with a negative timestamp, a Query
\* with a negative bound, and a frame with another tag.
C13_Witness ==
    /\ Len(msgs) = 3
    /\ \E k \in 1..3 : IsInsert(msgs[k]) /\ msgs[k].timestamp < 0 /\ msgs[k].price > 0
    /\ \E k \in 1..3 : IsQuery(msgs[k]) /\ msgs[k].end < 0
    /\ \E k \in 1..3 : IsInvalid(msgs[k]) /\ FrameAt(k)[1] = TagP

\* The session s has the store its own Inserts build, and each of its Queries
\* got the mean over the store of its own Inserts before that Query.
OwnFramesOnly(s) ==
    LET Q == { i \in 1..Len(s.msgs) : IsQuery(s.msgs[i]) }
        T(r) == r.arm = "Query"
        resp == SelectSeq(s.out, T)
        rank(i) == Cardinality({ j \in Q : j <= i })
    IN  /\ s.prices = StoreOf(s.msgs)
        /\ Len(resp) = Cardinality(Q)
        /\ \A i \in Q :
               to_num(resp[rank(i)].buf) =
                   get_mean(StoreOf(Take(s.msgs, i - 1)), s.msgs[i].start, s.msgs[i].end)

\* C14: sessions are isolated. With several sessions served in any
\* interleaving, each session's store holds the Inserts of its own connection
\* and nothing else, and each response is the mean over the Inserts that
\* came before the Query on its own connection; the sessions have different
\* ids.
C14_SessionsIsolated ==
    /\ \A c \in 1..Len(sessions) : OwnFramesOnly(sessions[c])
    /\ \A c, d \in 1..Len(sessions) : c # d => sessions[c].id # sessions[d].id

\* Two sessions hold different entries, and a Query in the second one whose
\* range covers the entries of both got the price of its own entry.
C14_Witness ==
    /\ Len(sessions) = 2
    /\ sessions[1].prices = <<<<2000000000, 2000000000>>>>
    /\ sessions[2].prices = <<<<-2000000000, 2000000001>>>>
    /\ Len(sessions[2].msgs) = 2
    /\ sessions[2].msgs[2] = Query(-2000000000, 2000000000)
    /\ sessions[2].out = <<write_i32("Query", 2000000001, TRUE)>>

\* C15: frame alignment. Every message took exactly 9 bytes off the front of
\* the accumulator, so the accumulator is what the stream holds after the
\* first 9 * (number of messages) bytes; when it holds fewer than 9 bytes,
\* which is when the decoder waits for input, the number of messages is the
\* number of bytes received divided by 9, rounded down, and the accumulator
\* is the part received of the peer's frame in progress.
C15_FrameAlignment ==
    /\ Len(received) = FrameLen * Len(msgs) + Len(buffer)
    /\ buffer = Drop(received, FrameLen * Len(msgs))
    /\ Len(buffer) < FrameLen =>
           /\ Len(msgs) = Len(received) \div FrameLen
           /\ buffer = cur

\* Two messages were obtained and the decoder waits with 8 bytes of the
\* third frame.
C15_Witness ==
    /\ state = "reading" /\ ~eof
    /\ Len(msgs) = 2
    /\ Len(buffer) = FrameLen - 1
    /\ Len(received) = 3 * FrameLen - 1

\* The write calls of the Query arm, in order.
QueryWrites == LET T(r) == r.arm = "Query" IN SelectSeq(out, T)

\* C16: a Query sees exactly the Inserts before it in the byte stream. With
\* the stream received so far cut into frames, the value written for the
\* k-th Query handled is the mean over the store built from the Inserts in
\* the frames before that Query's frame, whether or not frames behind it had
\* arrived when it was handled.
C16_QuerySeesEarlierInserts ==
    LET all == DecodeAll(received)
        Q == { i \in 1..Len(all) : IsQuery(all[i]) }
        pos(k) == CHOOSE i \in Q : Cardinality({ j \in Q : j <= i }) = k
    IN  \A k \in 1..Len(QueryWrites) :
            to_num(QueryWrites[k].buf) =
                get_mean(StoreOf(Take(all, pos(k) - 1)), all[pos(k)].start, all[pos(k)].end)

\* A Query was answered from an earlier Insert while an Insert that came in
\* the same read, and would have changed the mean, waits in the accumulator.
C16_Witness ==
    /\ QueryJustHandled
    /\ state = "reading"
    /\ mean # 0
    /\ Len(buffer) >= FrameLen
    /\ LET i == decode(buffer).item
       IN  /\ IsInsert(i)
           /\ mean # get_mean(BTreeInsert(prices, i.timestamp, i.price),
                              Last(msgs).start, Last(msgs).end)

\* C17: closed is terminal. A write that failed is the last write call, and
\* the session is closed with start returning the error; a failed write of
\* an Ok arm belongs to the latest message, and the store holds no Insert
\* behind it; a closed session takes no step at all, whatever its
\* accumulator still holds; and a session closed by end-of-stream on an
\* empty accumulator returned Ok and made no write beyond one per Query and
\* Invalid frame.
C17_ClosedIsTerminal ==
    /\ \A i \in 1..Len(out) :
           ~out[i].ok => (i = Len(out) /\ state = "closed" /\ ret = "Err")
    /\ (out # <<>> /\ ~Last(out).ok /\ Last(out).arm # "Err") =>
           /\ Last(msgs).type = Last(out).arm
           /\ prices = StoreOf(msgs)
    /\ state = "closed" =>
           /\ ret \in {"Ok", "Err"}
           /\ ret = "Err" => (out # <<>> /\ ~Last(out).ok)
           /\ ~ENABLED Next
    /\ (state = "closed" /\ eof /\ buffer = <<>>) =>
           /\ ret = "Ok"
           /\ ErrWrites = <<>>
           /\ Len(out) = Len(NonInserts)

\* The write of a response failed while a complete frame was waiting in the
\* accumulator: the session is closed and the frame stays there.
C17_Witness ==
    /\ state = "closed" /\ ret = "Err"
    /\ msgs # <<>> /\ IsQuery(Last(msgs))
    /\ ~Last(out).ok /\ Last(out).call = "write_i32"
    /\ Len(buffer) >= FrameLen
    /\ IsInsert(decode(buffer).item)

\* The timestamps the store m has an entry for.
KeysOf(m) == { m[i][1] : i \in 1..Len(m) }

\* C18: only Insert changes the store, and nothing leaves it. In every step
\* the store keeps all its timestamps; a step that handles a Query or an
\* Invalid frame, or handles no message, leaves the store as it is; and
\* after the step the store's timestamps are those of the Inserts handled so
\* far.
C18_StoreOnlyGrows ==
    [][ /\ KeysOf(prices) \subseteq KeysOf(prices')
        /\ (msgs' # msgs /\ ~IsInsert(Last(msgs'))) => prices' = prices
        /\ msgs' = msgs => prices' = prices
        /\ KeysOf(prices') = { msgs'[i].timestamp :
                                  i \in { j \in 1..Len(msgs') : IsInsert(msgs'[j]) } }
      ]_vars

\* The store has kept its two entries through a frame with an unknown tag.
C18_Witness ==
    /\ Len(msgs) = 3
    /\ IsInsert(msgs[1]) /\ IsInsert(msgs[2]) /\ IsInvalid(msgs[3])
    /\ KeysOf(prices) = {-2000000000, 2000000000}

\* C19: nothing received is left unprocessed at close. When the session is
\* closed and no write has failed, the messages handled are those of all
\* the complete frames in the bytes received, floor(n / 9) of them, and the
\* Query arm has written the 4 bytes of a response for each Query among
\* them.
C19_AllFramesProcessed ==
    (state = "closed" /\ \A i \in 1..Len(out) : out[i].ok) =>
        /\ Len(msgs) = Len(received) \div FrameLen
        /\ msgs = DecodeAll(received)
        /\ Len(QueryWrites) = Cardinality({ i \in 1..Len(msgs) : IsQuery(msgs[i]) })
        /\ \A k \in 1..Len(QueryWrites) : QueryWrites[k].n = 4

\* The peer sent three frames, two of them Queries, and closed; the session
\* closed normally after three messages and two responses.
C19_Witness ==
    /\ state = "closed" /\ ret = "Ok" /\ eof
    /\ Len(received) = 3 * FrameLen
    /\ Len(msgs) = 3
    /\ Len(QueryWrites) = 2
    /\ \A i \in 1..Len(out) : out[i].ok

\* C20, as stated: every write of `undefined behavior` that returned Ok has
\* put the whole payload on the connection, all 18 bytes of it, also when
\* the transport took only a part of the buffer in the call; what the
\* session does next comes after the payload's last byte.
C20_Original ==
    \A i \in 1..Len(out) :
        (out[i].buf = Diag /\ out[i].ok) => out[i].n = Len(Diag)

====
